---- MODULE Spec2Model ----
(***************************************************************************)
(* Budget Blueprint: the financial engine of src/src/lib/finance.ts and    *)
(* the rent allocation of src/src/App.tsx.                                 *)
(*                                                                         *)
(* A JavaScript number is modelled as an exact rational [num, den] in      *)
(* dollars (den > 0, lowest terms), or as one of the three non-finite      *)
(* values NaN, PosInf, NegInf.  Arithmetic is exact: the binary64 rounding *)
(* error of a single operation is not modelled, rounding to cents is.      *)
(***************************************************************************)
EXTENDS Integers, Sequences, FiniteSets, TLC

VARIABLES fn, args, locals, ret, state, storage

vars == <<fn, args, locals, ret, state, storage>>
engineVars == <<fn, args, locals, ret>>
appVars == <<state, storage>>

-----------------------------------------------------------------------------
(* Numbers *)

RECURSIVE GCD(_, _)
GCD(a, b) == IF b = 0 THEN a ELSE GCD(b, a % b)

Abs(n) == IF n < 0 THEN -n ELSE n

Rat(n, d) ==
  LET s == IF d < 0 THEN -1 ELSE 1
      g == GCD(Abs(n), Abs(d))
  IN [num |-> (s * n) \div g, den |-> (s * d) \div g]

Num(n) == Rat(n, 1)
Zero == Num(0)
Cents(c) == Rat(c, 100)

NaN == [nonfinite |-> "NaN"]
PosInf == [nonfinite |-> "Infinity"]
NegInf == [nonfinite |-> "-Infinity"]

IsFinite(v) == v \notin {NaN, PosInf, NegInf}

(* Exact arithmetic; common factors are cancelled before multiplying.   *)
(* NaN is contagious in arithmetic and makes every comparison false.    *)
Add(a, b) ==
  IF a = NaN \/ b = NaN THEN NaN ELSE
  LET g == GCD(a.den, b.den)
  IN Rat(a.num * (b.den \div g) + b.num * (a.den \div g), (a.den \div g) * b.den)
Neg(a) == IF a = NaN THEN NaN ELSE [num |-> -a.num, den |-> a.den]
Sub(a, b) == Add(a, Neg(b))
Mul(a, b) ==
  IF a = NaN \/ b = NaN THEN NaN ELSE
  LET g1 == GCD(Abs(a.num), b.den)
      g2 == GCD(Abs(b.num), a.den)
  IN Rat((a.num \div g1) * (b.num \div g2), (a.den \div g2) * (b.den \div g1))
Inv(a) ==
  IF a = NaN THEN NaN
  ELSE IF a.num < 0 THEN [num |-> -a.den, den |-> -a.num]
  ELSE [num |-> a.den, den |-> a.num]
Div(a, b) == Mul(a, Inv(b))
Lt(a, b) ==
  /\ a # NaN
  /\ b # NaN
  /\ LET g == GCD(a.den, b.den)
     IN a.num * (b.den \div g) < b.num * (a.den \div g)
Le(a, b) == a # NaN /\ b # NaN /\ ~Lt(b, a)
Gt(a, b) == Lt(b, a)
Ge(a, b) == Le(b, a)
Max(a, b) == IF a = NaN \/ b = NaN THEN NaN ELSE IF Lt(a, b) THEN b ELSE a
Min(a, b) == IF a = NaN \/ b = NaN THEN NaN ELSE IF Lt(b, a) THEN b ELSE a

(* Math.floor, Math.ceil and Math.round (halves round up) *)
MathFloor(a) == Num(a.num \div a.den)
MathCeil(a) == Num(-((-a.num) \div a.den))
MathRound(a) ==
  IF a = NaN THEN NaN ELSE
  LET q == a.num \div a.den
      r == a.num % a.den
  IN IF 2 * r >= a.den THEN Num(q + 1) ELSE Num(q)

RECURSIVE SumSeq(_)
SumSeq(s) == IF s = <<>> THEN Zero ELSE Add(Head(s), SumSeq(Tail(s)))

-----------------------------------------------------------------------------
(* src/src/lib/finance.ts *)

PAY_PERIODS == {"Semimonthly", "Weekly", "Biweekly"}

MONTHS_IN_YEAR == 12

MONTHLY_FACTORS ==
  [p \in PAY_PERIODS |->
     CASE p = "Semimonthly" -> Num(2)
       [] p = "Weekly" -> Rat(52, MONTHS_IN_YEAR)
       [] p = "Biweekly" -> Rat(26, MONTHS_IN_YEAR)]

clampCurrency(value) == IF IsFinite(value) /\ Gt(value, Zero) THEN value ELSE Zero

(* Variant of roundCurrency: exact half cents round down. *)
roundCurrencyHalfDown(value) ==
  Div(Neg(MathRound(Neg(Mul(value, Num(100))))), Num(100))

roundCurrency(value) == Div(MathRound(Mul(value, Num(100))), Num(100))

(* Variant of clampBetween: no upper limit. *)
clampBetweenFromBelow(value, min, max) ==
  IF ~IsFinite(value) THEN min ELSE Max(value, min)

clampBetween(value, min, max) ==
  IF ~IsFinite(value) THEN min ELSE Min(Max(value, min), max)

(* Variant of average: the mean of the entries that were kept. *)
averageOfValid(values) ==
  LET kept == {i \in 1..Len(values) : clampCurrency(values[i]) # Zero}
      cleaned == [i \in 1..Len(values) |-> clampCurrency(values[i])]
  IN IF kept = {} THEN Zero ELSE Div(SumSeq(cleaned), Num(Cardinality(kept)))

average(values) ==
  LET cleaned == [i \in 1..Len(values) |-> clampCurrency(values[i])]
  IN IF Len(cleaned) = 0 THEN Zero ELSE Div(SumSeq(cleaned), Num(Len(cleaned)))

UnknownPayPeriod == [error |-> "Unknown pay period"]

(* MONTHLY_FACTORS[period]: the object literal's own entry, else the     *)
(* member every object inherits under that name, else undefined.        *)
Undefined == [type |-> "undefined"]
InheritedMember == [object |-> "Object.prototype member"]
ObjectPrototypeKeys ==
  {"constructor", "hasOwnProperty", "isPrototypeOf", "propertyIsEnumerable",
   "toLocaleString", "toString", "valueOf", "__proto__"}

MonthlyFactorOf(period) ==
  IF period \in DOMAIN MONTHLY_FACTORS THEN MONTHLY_FACTORS[period]
  ELSE IF period \in ObjectPrototypeKeys THEN InheritedMember
  ELSE Undefined

Truthy(v) == v \notin {Undefined, Zero, NaN}

(* The number an operand of * is converted to. *)
ToNumber(v) == IF v \in {Undefined, InheritedMember} THEN NaN ELSE v

monthlyFromPay(averagePaycheck, period) ==
  LET normalized == clampCurrency(averagePaycheck)
      factor == MonthlyFactorOf(period)
  IN IF ~Truthy(factor)
       THEN UnknownPayPeriod
       ELSE roundCurrency(Mul(normalized, ToNumber(factor)))

sum(values) == SumSeq([i \in 1..Len(values) |-> clampCurrency(values[i])])

Categories == {"Rent", "Bills", "Groceries", "Gas", "Savings", "Wants", "Debt"}

(* Variant of Remaining: the rent is not taken out. *)
RemainingBeforeRent(monthlyIncome, rent, bills, groceries, gas, savings, wants) ==
  Sub(monthlyIncome, Add(Add(Add(Add(bills, groceries), gas), savings), wants))

Remaining(monthlyIncome, rent, bills, groceries, gas, savings, wants) ==
  Sub(monthlyIncome, Add(Add(Add(Add(Add(rent, bills), groceries), gas), savings), wants))

(* Variant of DebtOf: the residual is rounded without the floor at zero. *)
DebtOfUnfloored(remaining) == roundCurrency(remaining)

DebtOf(remaining) == roundCurrency(IF Gt(remaining, Zero) THEN remaining ELSE Zero)

(* Variant of AggregatePercentage: capped at 100 like a category's. *)
AggregatePercentageCapped(x, monthlyIncome) ==
  IF Gt(monthlyIncome, Zero)
    THEN Min(Num(100), roundCurrency(Mul(Div(x, monthlyIncome), Num(100))))
    ELSE Zero

AggregatePercentage(x, monthlyIncome) ==
  IF Gt(monthlyIncome, Zero)
    THEN roundCurrency(Mul(Div(x, monthlyIncome), Num(100)))
    ELSE Zero

(* Variant of PercentBase: the income, but at least 1. *)
PercentBaseAtLeastOne(monthlyIncome) == Max(monthlyIncome, Num(1))

PercentBase(monthlyIncome) == IF Gt(monthlyIncome, Zero) THEN monthlyIncome ELSE Num(1)

computeBudgetPerson(person, rentShare) ==
  LET monthlyIncome == monthlyFromPay(average(person.paychecks), person.payPeriod)
  IN IF monthlyIncome = UnknownPayPeriod THEN UnknownPayPeriod ELSE
  LET rent == clampCurrency(rentShare)
      bills == roundCurrency(sum([i \in 1..Len(person.bills) |-> person.bills[i].amount]))
      groceries == roundCurrency(clampCurrency(person.groceries))
      gas == roundCurrency(clampCurrency(person.gas))
      savings == roundCurrency(clampCurrency(
                   Mul(monthlyIncome, clampBetween(person.savingsRate, Zero, Num(1)))))
      wants == roundCurrency(clampCurrency(
                 Mul(monthlyIncome, clampBetween(person.wantsRate, Zero, Num(1)))))
      remaining == Remaining(monthlyIncome, rent, bills, groceries, gas, savings, wants)
      debt == DebtOf(remaining)
      totals == [k \in Categories |->
                   CASE k = "Rent" -> rent
                     [] k = "Bills" -> bills
                     [] k = "Groceries" -> groceries
                     [] k = "Gas" -> gas
                     [] k = "Savings" -> savings
                     [] k = "Wants" -> wants
                     [] k = "Debt" -> debt]
      base == PercentBase(monthlyIncome)
      percentages == [k \in Categories |->
                        Min(Num(100), roundCurrency(Mul(Div(totals[k], base), Num(100))))]
      needs == Add(Add(Add(rent, bills), groceries), gas)
      wantsBucket == wants
      savingsDebt == Add(savings, debt)
      pct(x) == AggregatePercentage(x, monthlyIncome)
  IN [monthlyIncome |-> monthlyIncome,
      rent |-> rent,
      bills |-> bills,
      groceries |-> groceries,
      gas |-> gas,
      savings |-> savings,
      wants |-> wants,
      debt |-> debt,
      totals |-> totals,
      percentages |-> percentages,
      needsPercentage |-> pct(needs),
      wantsPercentage |-> pct(wantsBucket),
      savingsDebtPercentage |-> pct(savingsDebt)]

(* payoffMonths: the loop body, the loop and the function *)

(* Variant of PayoffMonthCount: the quotient is rounded down. *)
PayoffMonthCountFloor(debt, payment) == MathFloor(Div(debt, payment))

PayoffMonthCount(debt, payment) == MathCeil(Div(debt, payment))

(* Variant of PayoffRemaining: the balance after the month's payment. *)
PayoffRemainingAfterPayment(debt, payment, month) ==
  Max(Zero, Sub(debt, Mul(payment, Num(month + 1))))

PayoffRemaining(debt, payment, month) == Max(Zero, Sub(debt, Mul(payment, Num(month))))

PayoffPoint(debt, payment, month) ==
  [month |-> month, amount |-> roundCurrency(PayoffRemaining(debt, payment, month))]

ForceLastZero(series) ==
  IF Len(series) > 0 THEN [series EXCEPT ![Len(series)].amount = Zero] ELSE series

(* Variant of PayoffLoopContinues: the loop stops one month early. *)
PayoffLoopStopsEarly(month, months) == month < months.num

(* The condition of the payoff loop, `month <= months`. *)
PayoffLoopContinues(month, months) == month <= months.num

RECURSIVE PayoffLoop(_, _, _, _, _)
PayoffLoop(series, debt, payment, month, months) ==
  IF PayoffLoopContinues(month, months)
    THEN PayoffLoop(Append(series, PayoffPoint(debt, payment, month)),
                    debt, payment, month + 1, months)
    ELSE series

(* Variant of PayoffBranch: the payment is checked before the debt. *)
PayoffBranchPaymentFirst(debt, payment) ==
  IF Le(payment, Zero) THEN "never"
  ELSE IF debt = Zero THEN "debtFree"
  ELSE "schedule"

PayoffBranch(debt, payment) ==
  IF debt = Zero THEN "debtFree"
  ELSE IF Le(payment, Zero) THEN "never"
  ELSE "schedule"

DebtFreeResult == [months |-> Zero, debtSeries |-> <<>>]

(* Variant of NeverResult: zero months stand for "never". *)
NeverResultZeroMonths == [months |-> Zero, debtSeries |-> <<>>]

NeverResult == [months |-> PosInf, debtSeries |-> <<>>]

payoffMonths(startingDebt, monthlyPayment) ==
  LET debt == clampCurrency(startingDebt)
      payment == clampCurrency(monthlyPayment)
      branch == PayoffBranch(debt, payment)
  IN IF branch = "debtFree" THEN DebtFreeResult
     ELSE IF branch = "never" THEN NeverResult
     ELSE LET months == PayoffMonthCount(debt, payment)
          IN [months |-> months,
              debtSeries |-> ForceLastZero(PayoffLoop(<<>>, debt, payment, 0, months))]

(* savingsProjection: the loop body, the loop and the function *)

(* Variants of FoldsIn: the payoff month itself folds in; a payoff of 0   *)
(* months folds in from the first month.                                  *)
FoldsInAtPayoffMonth(payoff, debtRoll, month) ==
  /\ IsFinite(payoff.months)
  /\ Gt(payoff.months, Zero)
  /\ Gt(debtRoll, Zero)
  /\ Ge(Num(month), payoff.months)

FoldsInWhenDebtFree(payoff, debtRoll, month) ==
  /\ IsFinite(payoff.months)
  /\ Gt(debtRoll, Zero)
  /\ Gt(Num(month), payoff.months)

FoldsIn(payoff, debtRoll, month) ==
  /\ IsFinite(payoff.months)
  /\ Gt(payoff.months, Zero)
  /\ Gt(debtRoll, Zero)
  /\ Gt(Num(month), payoff.months)

(* Variant of SavingsBalance: the balance is rounded to cents every month. *)
SavingsBalanceRounded(balance, monthly, debtRoll, payoff, month) ==
  LET added == Add(balance, monthly)
  IN roundCurrency(IF FoldsIn(payoff, debtRoll, month) THEN Add(added, debtRoll) ELSE added)

SavingsBalance(balance, monthly, debtRoll, payoff, month) ==
  LET added == Add(balance, monthly)
  IN IF FoldsIn(payoff, debtRoll, month) THEN Add(added, debtRoll) ELSE added

(* Variant of SavingsPoint: the points are numbered from 0. *)
SavingsPointFromZero(balance, month) ==
  [month |-> month - 1, amount |-> roundCurrency(balance)]

SavingsPoint(balance, month) == [month |-> month, amount |-> roundCurrency(balance)]

RECURSIVE SavingsLoop(_, _, _, _, _, _, _)
SavingsLoop(points, balance, monthly, debtRoll, payoff, month, months) ==
  IF month <= months
    THEN LET b == SavingsBalance(balance, monthly, debtRoll, payoff, month)
         IN SavingsLoop(Append(points, SavingsPoint(b, month)),
                        b, monthly, debtRoll, payoff, month + 1, months)
    ELSE points

savingsProjection(in) ==
  LET baseSavings == clampCurrency(in.startingSavings)
      monthly == clampCurrency(in.monthlySavings)
      debtRoll == clampCurrency(in.debtContribution)
  IN SavingsLoop(<<>>, baseSavings, monthly, debtRoll, in.payoff, 1, in.months)

-----------------------------------------------------------------------------
(* Calls of the engine: the inputs are drawn in the initial state, the     *)
(* actions run the function; the two loops run one iteration per step.     *)

NoRet == [none |-> TRUE]
NoLocals == [pc |-> "none"]
NoState == [none |-> TRUE]
NoStorage == [none |-> TRUE]

AppIdle == state = NoState /\ storage = NoStorage

MaxPaychecks == 2
MaxBills == 1
MaxPayoffMonths == 12
MaxHorizon == 3

SAVINGS_MONTHS == 12

SeqsUpTo(S, n) == UNION {[1..k -> S] : k \in 0..n}

PaycheckInputs == {Num(50), Rat(1, 4)}
BillInputs == {Num(10), Rat(1, 200), Num(-5)}
GroceryInputs == {Zero, Num(20)}
GasInputs == {Zero, Cents(1550)}
SavingsRateInputs == {Rat(1, 5), Num(2), NaN}
WantsRateInputs == {Rat(1, 5), Rat(-1, 2)}
PeriodInputs == PAY_PERIODS \cup {"Monthly", "constructor"}
RentShareInputs == {Num(30), Rat(100, 3), NegInf}

BillOf(amount) == [id |-> "bill", label |-> "Bill", amount |-> amount]

ProfileInputs ==
  {[paychecks |-> pc, payPeriod |-> pp,
    bills |-> [i \in 1..Len(ba) |-> BillOf(ba[i])],
    groceries |-> gr, gas |-> ga, savingsRate |-> sr, wantsRate |-> wr,
    startingDebt |-> Zero, startingSavings |-> Zero] :
     pc \in SeqsUpTo(PaycheckInputs, MaxPaychecks), pp \in PeriodInputs,
     ba \in SeqsUpTo(BillInputs, MaxBills), gr \in GroceryInputs, ga \in GasInputs,
     sr \in SavingsRateInputs, wr \in WantsRateInputs}

createBill(personId, index, label, amount) ==
  [id |-> personId \o "-bill-" \o ToString(index + 1), label |-> label, amount |-> amount]

PERSON_TEMPLATES ==
  <<[id |-> "person-1", name |-> "Person 1",
     paychecks |-> [i \in 1..5 |-> Cents(234297)],
     payPeriod |-> "Semimonthly",
     bills |-> <<createBill("person-1", 0, "Car Payment", Num(130)),
                 createBill("person-1", 1, "Utilities", Num(228)),
                 createBill("person-1", 2, "Phone", Num(45)),
                 createBill("person-1", 3, "Streaming", Num(16)),
                 createBill("person-1", 4, "Cloud Storage", Cents(637)),
                 createBill("person-1", 5, "Music", Cents(2126)),
                 createBill("person-1", 6, "Miscellaneous", Num(10))>>,
     groceries |-> Num(400), gas |-> Num(120),
     savingsRate |-> Rat(2, 10), wantsRate |-> Rat(2, 10),
     startingDebt |-> Cents(176501), startingSavings |-> Cents(51562)],
    [id |-> "person-2", name |-> "Person 2",
     paychecks |-> <<Cents(42198), Cents(47398), Cents(59930), Cents(82644),
                     Cents(62478), Cents(87360), Cents(45188), Cents(68276),
                     Cents(47580), Cents(73008), Cents(83524), Cents(75920)>>,
     payPeriod |-> "Weekly",
     bills |-> <<createBill("person-2", 0, "Car Insurance", Cents(5944)),
                 createBill("person-2", 1, "Utilities", Num(150)),
                 createBill("person-2", 2, "Subscriptions", Num(20)),
                 createBill("person-2", 3, "Gym", Num(16))>>,
     groceries |-> Num(400), gas |-> Num(120),
     savingsRate |-> Rat(2, 10), wantsRate |-> Rat(2, 10),
     startingDebt |-> Num(5000), startingSavings |-> Cents(1105734)]>>

TemplateRentShareInputs == {Num(1000)}

BudgetArgInputs ==
  [person : ProfileInputs, rentShare : RentShareInputs]
    \cup {[person |-> PERSON_TEMPLATES[i], rentShare |-> r] :
            i \in 1..Len(PERSON_TEMPLATES), r \in TemplateRentShareInputs}

InitBudget ==
  /\ fn = "computeBudgetPerson"
  /\ args \in BudgetArgInputs
  /\ locals = NoLocals
  /\ ret = NoRet
  /\ AppIdle

CallComputeBudgetPerson ==
  /\ fn = "computeBudgetPerson"
  /\ ret = NoRet
  /\ ret' = computeBudgetPerson(args.person, args.rentShare)
  /\ UNCHANGED <<fn, args, locals, appVars>>

NextBudget == CallComputeBudgetPerson

SpecBudget == InitBudget /\ [][NextBudget]_vars

(* payoffMonths *)

DebtInputs == {Zero, Num(-3), NaN, PosInf, Num(1200), Num(1000), Num(10), Cents(5), Rat(1001, 200)}
PaymentInputs == {Zero, Num(-1), NaN, NegInf, Num(100), Num(300), Num(3), Cents(2), Rat(401, 200)}

PayoffInputs ==
  {a \in [startingDebt : DebtInputs, monthlyPayment : PaymentInputs] :
     LET debt == clampCurrency(a.startingDebt)
         payment == clampCurrency(a.monthlyPayment)
     IN Gt(debt, Zero) /\ Gt(payment, Zero)
          => Le(Div(debt, payment), Num(MaxPayoffMonths))}

InitPayoff ==
  /\ fn = "payoffMonths"
  /\ args \in PayoffInputs
  /\ locals = [pc |-> "start"]
  /\ ret = NoRet
  /\ AppIdle

PayoffEnter ==
  /\ fn = "payoffMonths"
  /\ locals.pc = "start"
  /\ LET debt == clampCurrency(args.startingDebt)
         payment == clampCurrency(args.monthlyPayment)
         branch == PayoffBranch(debt, payment)
     IN IF branch = "debtFree"
          THEN /\ ret' = DebtFreeResult
               /\ locals' = [pc |-> "done"]
          ELSE IF branch = "never"
            THEN /\ ret' = NeverResult
                 /\ locals' = [pc |-> "done"]
            ELSE /\ locals' = [pc |-> "loop", debt |-> debt, payment |-> payment,
                               months |-> PayoffMonthCount(debt, payment),
                               month |-> 0, series |-> <<>>]
                 /\ ret' = ret
  /\ UNCHANGED <<fn, args, appVars>>

PayoffIterate ==
  /\ fn = "payoffMonths"
  /\ locals.pc = "loop"
  /\ PayoffLoopContinues(locals.month, locals.months)
  /\ locals' = [locals EXCEPT
                  !.series = Append(@, PayoffPoint(locals.debt, locals.payment, locals.month)),
                  !.month = @ + 1]
  /\ UNCHANGED <<fn, args, ret, appVars>>

PayoffExit ==
  /\ fn = "payoffMonths"
  /\ locals.pc = "loop"
  /\ ~PayoffLoopContinues(locals.month, locals.months)
  /\ ret' = [months |-> locals.months, debtSeries |-> ForceLastZero(locals.series)]
  /\ locals' = [locals EXCEPT !.pc = "done"]
  /\ UNCHANGED <<fn, args, appVars>>

NextPayoff == PayoffEnter \/ PayoffIterate \/ PayoffExit

SpecPayoff == InitPayoff /\ [][NextPayoff]_vars

(* savingsProjection *)

StartingSavingsInputs == {Zero, Num(500), Rat(3, 1000), Num(-20)}
MonthlySavingsInputs == {Zero, Num(100), Rat(1, 200)}
DebtContributionInputs == {Zero, Num(40), Rat(1, 200), NaN}
HorizonInputs == (0..MaxHorizon) \cup {SAVINGS_MONTHS}
PayoffResultInputs == {payoffMonths(a.startingDebt, a.monthlyPayment) : a \in PayoffInputs}

SavingsInputs ==
  [startingSavings : StartingSavingsInputs, monthlySavings : MonthlySavingsInputs,
   months : HorizonInputs, debtContribution : DebtContributionInputs,
   payoff : PayoffResultInputs]

InitSavings ==
  /\ fn = "savingsProjection"
  /\ args \in SavingsInputs
  /\ locals = [pc |-> "start"]
  /\ ret = NoRet
  /\ AppIdle

SavingsEnter ==
  /\ fn = "savingsProjection"
  /\ locals.pc = "start"
  /\ locals' = [pc |-> "loop", points |-> <<>>,
                baseSavings |-> clampCurrency(args.startingSavings),
                monthly |-> clampCurrency(args.monthlySavings),
                debtRoll |-> clampCurrency(args.debtContribution),
                balance |-> clampCurrency(args.startingSavings),
                month |-> 1]
  /\ UNCHANGED <<fn, args, ret, appVars>>

SavingsIterate ==
  /\ fn = "savingsProjection"
  /\ locals.pc = "loop"
  /\ locals.month <= args.months
  /\ LET b == SavingsBalance(locals.balance, locals.monthly, locals.debtRoll,
                             args.payoff, locals.month)
     IN locals' = [locals EXCEPT !.balance = b,
                                 !.points = Append(@, SavingsPoint(b, locals.month)),
                                 !.month = @ + 1]
  /\ UNCHANGED <<fn, args, ret, appVars>>

SavingsExit ==
  /\ fn = "savingsProjection"
  /\ locals.pc = "loop"
  /\ ~(locals.month <= args.months)
  /\ ret' = locals.points
  /\ locals' = [locals EXCEPT !.pc = "done"]
  /\ UNCHANGED <<fn, args, appVars>>

NextSavings == SavingsEnter \/ SavingsIterate \/ SavingsExit

SpecSavings == InitSavings /\ [][NextSavings]_vars

(* Both loops, for the claim about their termination: the savings horizon *)
(* also takes a negative number of months. *)

NegativeHorizonInputs ==
  [startingSavings : {Num(500)}, monthlySavings : {Num(100)},
   months : {-2}, debtContribution : {Zero, Num(40)},
   payoff : PayoffResultInputs]

InitLoops ==
  \/ InitPayoff
  \/ /\ fn = "savingsProjection"
     /\ args \in SavingsInputs \cup NegativeHorizonInputs
     /\ locals = [pc |-> "start"]
     /\ ret = NoRet
     /\ AppIdle

NextLoops == NextPayoff \/ NextSavings

SpecLoops == InitLoops /\ [][NextLoops]_vars

(* The step-wise loops return what the functions return. *)
PayoffStepsAgree ==
  (fn = "payoffMonths" /\ locals.pc = "done")
    => ret = payoffMonths(args.startingDebt, args.monthlyPayment)

SavingsStepsAgree ==
  (fn = "savingsProjection" /\ locals.pc = "done") => ret = savingsProjection(args)

-----------------------------------------------------------------------------
(* computeBudgetPerson *)

BudgetReturned ==
  fn = "computeBudgetPerson" /\ ret # NoRet /\ ret # UnknownPayPeriod

SixCategories(b) ==
  Add(Add(Add(Add(Add(b.rent, b.bills), b.groceries), b.gas), b.savings), b.wants)

(* C1: conservation of income. Whenever rent+bills+groceries+gas+savings+  *)
(* wants <= monthlyIncome, the seven returned categories (the six and      *)
(* debt) add up to monthlyIncome exactly, also for a rent share that is    *)
(* not a whole number of cents.                                            *)
C1_ConservationOfIncome ==
  BudgetReturned =>
    (Le(SixCategories(ret), ret.monthlyIncome)
       => Add(SixCategories(ret), ret.debt) = ret.monthlyIncome)

(* C2: the debt allocation is never negative, it is exactly 0 whenever the *)
(* six named categories use up all of the income or more, and it is the    *)
(* residual of the income after the six categories, rounded to cents.      *)
C2_DebtNeverNegative ==
  BudgetReturned =>
    /\ Ge(ret.debt, Zero)
    /\ Ge(SixCategories(ret), ret.monthlyIncome) => ret.debt = Zero
    /\ IsFinite(ret.monthlyIncome) =>
         ret.debt = roundCurrency(Max(Zero, Sub(ret.monthlyIncome, SixCategories(ret))))

C2_Witness ==
  /\ BudgetReturned
  /\ Gt(SixCategories(ret), ret.monthlyIncome)
  /\ Gt(ret.monthlyIncome, Zero)
  /\ ret.debt = Zero

-----------------------------------------------------------------------------
(* savingsProjection *)

SavingsRunning == fn = "savingsProjection" /\ locals.pc \in {"loop", "done"}

SavingsReturned == fn = "savingsProjection" /\ locals.pc = "done"

BaseSavings == clampCurrency(args.startingSavings)
MonthlySavings == clampCurrency(args.monthlySavings)
DebtContribution == clampCurrency(args.debtContribution)

(* The months of 1..m that lie strictly after the payoff month pm. *)
MonthsAfter(m, pm) == IF m > pm THEN m - pm ELSE 0

(* start + m*monthly + k*contribution, rounded to cents *)
SavingsAmount(m, k) ==
  roundCurrency(Add(Add(BaseSavings, Mul(Num(m), MonthlySavings)),
                    Mul(Num(k), DebtContribution)))

(* C3: snowball fold-in. When payoff.months is finite and > 0 and          *)
(* debtContribution > 0, the point for month m has amount startingSavings  *)
(* + m*monthlySavings + max(0, m - payoff.months)*debtContribution,        *)
(* rounded to cents (the savings inputs clamped to >= 0): the contribution *)
(* is added in every month strictly after the payoff month and in none up  *)
(* to and including it.                                                    *)
C3_SnowballFoldIn ==
  (/\ SavingsRunning
   /\ IsFinite(args.payoff.months)
   /\ Gt(args.payoff.months, Zero)
   /\ Gt(DebtContribution, Zero))
    => \A m \in 1..Len(locals.points) :
         /\ locals.points[m].month = m
         /\ locals.points[m].amount = SavingsAmount(m, MonthsAfter(m, args.payoff.months.num))

C3_Witness ==
  /\ SavingsReturned
  /\ IsFinite(args.payoff.months)
  /\ Gt(args.payoff.months, Zero)
  /\ Gt(DebtContribution, Zero)
  /\ Len(ret) > args.payoff.months.num + 1
  /\ Gt(ret[Len(ret)].amount, SavingsAmount(Len(ret), 0))

C5_PointsNumberedFromOne ==
  SavingsReturned =>
    /\ Len(ret) = args.months
    /\ \A i \in 1..Len(ret) : ret[i].month = i
    /\ (DebtContribution = Zero /\ args.months >= 1)
         => ret[args.months].amount =
              roundCurrency(Add(BaseSavings, Mul(Num(args.months), MonthlySavings)))

C5_Witness ==
  /\ SavingsReturned
  /\ args.startingSavings = Num(500)
  /\ args.monthlySavings = Num(100)
  /\ args.months = 12
  /\ args.debtContribution = Zero
  /\ Len(ret) = 12
  /\ ret[1].month = 1
  /\ ret[12] = [month |-> 12, amount |-> Num(1700)]

-----------------------------------------------------------------------------
(* payoffMonths *)

PayoffReturned == fn = "payoffMonths" /\ locals.pc = "done"

DebtPositive == IsFinite(args.startingDebt) /\ Gt(args.startingDebt, Zero)
PaymentPositive == IsFinite(args.monthlyPayment) /\ Gt(args.monthlyPayment, Zero)

(* C6: for startingDebt > 0 and monthlyPayment > 0, months is              *)
(* ceil(startingDebt / monthlyPayment): the least integer n >= 1 with      *)
(* monthlyPayment*n >= startingDebt.                                       *)
C6_MonthsIsCeiling ==
  (PayoffReturned /\ DebtPositive /\ PaymentPositive) =>
    /\ IsFinite(ret.months)
    /\ ret.months.den = 1
    /\ ret.months.num >= 1
    /\ Ge(Mul(args.monthlyPayment, ret.months), args.startingDebt)
    /\ Lt(Mul(args.monthlyPayment, Num(ret.months.num - 1)), args.startingDebt)

C6_Witness ==
  /\ PayoffReturned
  /\ args.startingDebt = Num(1200)
  /\ args.monthlyPayment = Num(100)
  /\ ret.months = Num(12)

(* The parts of C7 that do not depend on rounding: months+1 entries with   *)
(* month fields 0..months in order, amounts non-increasing and never       *)
(* negative, the final entry exactly 0.                                    *)
SeriesShape(series, months) ==
  /\ Len(series) = months + 1
  /\ \A i \in 1..Len(series) : series[i].month = i - 1
  /\ \A i \in 1..Len(series) : Ge(series[i].amount, Zero)
  /\ \A i \in 1..(Len(series) - 1) : Ge(series[i].amount, series[i + 1].amount)
  /\ series[Len(series)].amount = Zero

(* C7 as claimed: for startingDebt > 0 and monthlyPayment > 0, debtSeries  *)
(* has months+1 entries numbered 0..months, entry 0 equals startingDebt,   *)
(* every entry m < months equals max(0, startingDebt - monthlyPayment*m),  *)
(* the amounts are non-increasing and never negative, the last one is 0.   *)
C7_SeriesIsExactBalance ==
  (PayoffReturned /\ DebtPositive /\ PaymentPositive) =>
    /\ SeriesShape(ret.debtSeries, ret.months.num)
    /\ ret.debtSeries[1].amount = args.startingDebt
    /\ \A m \in 0..(ret.months.num - 1) :
         ret.debtSeries[m + 1].amount =
           Max(Zero, Sub(args.startingDebt, Mul(args.monthlyPayment, Num(m))))

(* C7 as amended: the same, with entry 0 equal to startingDebt rounded to  *)
(* cents and every entry m < months equal to                               *)
(* max(0, startingDebt - monthlyPayment*m) rounded to cents.               *)
C7_SeriesIsRoundedBalance ==
  (PayoffReturned /\ DebtPositive /\ PaymentPositive) =>
    /\ SeriesShape(ret.debtSeries, ret.months.num)
    /\ ret.debtSeries[1].amount = roundCurrency(args.startingDebt)
    /\ \A m \in 0..(ret.months.num - 1) :
         ret.debtSeries[m + 1].amount =
           roundCurrency(Max(Zero, Sub(args.startingDebt, Mul(args.monthlyPayment, Num(m)))))

C7_Witness ==
  /\ PayoffReturned
  /\ args.startingDebt = Rat(1001, 200)
  /\ args.monthlyPayment = Num(3)
  /\ ret.months = Num(2)
  /\ ret.debtSeries = <<[month |-> 0, amount |-> Cents(501)],
                        [month |-> 1, amount |-> Cents(201)],
                        [month |-> 2, amount |-> Zero]>>

(* C8: with startingDebt <= 0 or non-finite, payoffMonths returns          *)
(* months = 0 and an empty debtSeries for every monthlyPayment, a zero,    *)
(* negative or non-finite one included.                                    *)
C8_DebtFreeTakesPrecedence ==
  (fn = "payoffMonths" /\ locals.pc # "start" /\ ~DebtPositive) =>
    /\ locals.pc = "done"
    /\ ret.months = Zero
    /\ ret.debtSeries = <<>>

C8_Witness ==
  /\ PayoffReturned
  /\ args.startingDebt = Zero
  /\ args.monthlyPayment \in {Zero, Num(-1), NaN}
  /\ ret.months = Zero

(* C9: with startingDebt > 0 and monthlyPayment <= 0 or non-finite,        *)
(* payoffMonths returns months = Infinity and an empty debtSeries as a     *)
(* normal result, without entering the loop.                               *)
C9_NeverPaysOffSentinel ==
  (fn = "payoffMonths" /\ locals.pc # "start" /\ DebtPositive /\ ~PaymentPositive) =>
    /\ locals.pc = "done"
    /\ ret.months = PosInf
    /\ ret.debtSeries = <<>>

C9_Witness ==
  /\ PayoffReturned
  /\ args.startingDebt = Num(1000)
  /\ args.monthlyPayment = Zero
  /\ ret = [months |-> PosInf, debtSeries |-> <<>>]

-----------------------------------------------------------------------------
(* src/src/App.tsx: the state, its setters and the values derived from it  *)
(* on every render.                                                        *)

RentModes == {"fair", "equal"}

(* Number(text) for the texts the inputs are given. *)
TextInputs == {"", "abc", "-5", "1500", "33.335", "Infinity"}

Number(text) ==
  CASE text = "" -> Zero
    [] text = "abc" -> NaN
    [] text = "-5" -> Num(-5)
    [] text = "1500" -> Num(1500)
    [] text = "33.335" -> Rat(33335, 1000)
    [] text = "Infinity" -> PosInf
    [] text = "0" -> Zero
    [] text = "20" -> Num(20)
    [] text = "80" -> Num(80)

(* JavaScript values of unknown type: what JSON.parse returns, what       *)
(* JSON.stringify writes and what an input hands to a handler.             *)
JNull == [type |-> "null"]
JNum(x) == [type |-> "number", number |-> x]
JStr(text) == [type |-> "string", string |-> text]
JBool(b) == [type |-> "boolean", boolean |-> b]
JArr(items) == [type |-> "array", items |-> items]
JObj(fields) == [type |-> "object", fields |-> fields]

IsArray(v) == v.type = "array"
IsString(v) == v.type = "string"

(* v[key] for a property name, and v[index] for an array index from 0. *)
Get(v, key) ==
  IF v.type = "object" /\ key \in DOMAIN v.fields THEN v.fields[key] ELSE Undefined
At(v, index) ==
  IF v.type = "array" /\ index + 1 <= Len(v.items) THEN v.items[index + 1] ELSE Undefined

(* !v is false *)
IsTruthy(v) ==
  CASE v.type \in {"undefined", "null"} -> FALSE
    [] v.type = "boolean" -> v.boolean
    [] v.type = "number" -> v.number \notin {Zero, NaN}
    [] v.type = "string" -> v.string # ""
    [] v.type \in {"array", "object"} -> TRUE

(* text.trim().length is 0 *)
IsBlank(text) == text \in {"", " "}

(* Number(value) for a value of unknown type *)
RECURSIVE NumberOf(_)
NumberOf(v) ==
  CASE v.type = "number" -> v.number
    [] v.type = "string" -> Number(v.string)
    [] v.type = "null" -> Zero
    [] v.type = "boolean" -> IF v.boolean THEN Num(1) ELSE Zero
    [] v.type = "undefined" -> NaN
    [] v.type = "object" -> NaN
    [] v.type = "array" ->
         IF Len(v.items) = 0 THEN Zero
         ELSE IF Len(v.items) > 1 THEN NaN
         ELSE LET item == v.items[1]
              IN CASE item.type \in {"null", "undefined"} -> Zero
                   [] item.type \in {"number", "string", "array"} -> NumberOf(item)
                   [] item.type \in {"boolean", "object"} -> NaN

clampNumber(value, fallback) ==
  LET numeric == NumberOf(value)
  IN IF ~IsFinite(numeric) \/ Lt(numeric, Zero) THEN fallback ELSE numeric

clampRate(value, fallback) ==
  LET numeric == NumberOf(value)
  IN IF ~IsFinite(numeric) THEN fallback ELSE Min(Max(numeric, Zero), Num(1))

sanitizePayPeriod(value, fallback) ==
  IF IsString(value) /\ value.string \in PAY_PERIODS THEN value.string ELSE fallback

clonePerson(person) == person

createDefaultState ==
  [rent |-> Cents(216917),
   rentMode |-> "fair",
   persons |-> [i \in 1..Len(PERSON_TEMPLATES) |-> clonePerson(PERSON_TEMPLATES[i])]]

(* sanitizeBills: the fallback bill of an index, one stored entry, and the *)
(* final pass over the bills.                                              *)
BillLabel(index) == "Bill " \o ToString(index + 1)

FallbackBill(fallbackBills, personId, index) ==
  IF index + 1 <= Len(fallbackBills)
    THEN fallbackBills[index + 1]
    ELSE createBill(personId, index, BillLabel(index), Zero)

SanitizeEntry(entry, fallback) ==
  IF entry.type = "object"
    THEN LET label == Get(entry, "label")
             id == Get(entry, "id")
         IN [id |-> IF IsString(id) /\ id.string # "" THEN id.string ELSE fallback.id,
             label |-> IF IsString(label) /\ ~IsBlank(label.string)
                         THEN label.string ELSE fallback.label,
             amount |-> clampNumber(Get(entry, "amount"), fallback.amount)]
    ELSE [fallback EXCEPT !.amount = clampNumber(entry, fallback.amount)]

FinishBill(bill, personId, index) ==
  [id |-> IF bill.id # "" THEN bill.id ELSE personId \o "-bill-" \o ToString(index + 1),
   label |-> IF ~IsBlank(bill.label) THEN bill.label ELSE BillLabel(index),
   amount |-> clampNumber(JNum(bill.amount), Zero)]

sanitizeBills(value, fallbackBills, personId) ==
  IF ~IsArray(value) \/ Len(value.items) = 0
    THEN [i \in 1..Len(fallbackBills) |-> FinishBill(fallbackBills[i], personId, i - 1)]
    ELSE [i \in 1..Len(value.items) |->
            FinishBill(SanitizeEntry(value.items[i],
                                     FallbackBill(fallbackBills, personId, i - 1)),
                       personId, i - 1)]

(* The stored document: nothing, an empty text, a text JSON.parse rejects, *)
(* or the text of a JSON value.                                            *)
NoDocument == [kind |-> "none"]
EmptyText == [kind |-> "empty"]
MalformedText == [kind |-> "malformed"]
JSONText(v) == [kind |-> "json", value |-> v]

(* Variant of JSONNumber: the fraction of a number is not written. *)
JSONNumberWhole(x) == IF IsFinite(x) THEN JNum(MathFloor(x)) ELSE JNull

JSONNumber(x) == IF IsFinite(x) THEN JNum(x) ELSE JNull

BillToJSON(bill) ==
  JObj([id |-> JStr(bill.id), label |-> JStr(bill.label), amount |-> JSONNumber(bill.amount)])

PersonToJSON(person) ==
  JObj([id |-> JStr(person.id),
        name |-> JStr(person.name),
        paychecks |-> JArr([i \in 1..Len(person.paychecks) |-> JSONNumber(person.paychecks[i])]),
        payPeriod |-> JStr(person.payPeriod),
        bills |-> JArr([i \in 1..Len(person.bills) |-> BillToJSON(person.bills[i])]),
        groceries |-> JSONNumber(person.groceries),
        gas |-> JSONNumber(person.gas),
        savingsRate |-> JSONNumber(person.savingsRate),
        wantsRate |-> JSONNumber(person.wantsRate),
        startingDebt |-> JSONNumber(person.startingDebt),
        startingSavings |-> JSONNumber(person.startingSavings)])

JSONStringify(st) ==
  JSONText(JObj([rent |-> JSONNumber(st.rent),
                 rentMode |-> JStr(st.rentMode),
                 persons |-> JArr([i \in 1..Len(st.persons) |-> PersonToJSON(st.persons[i])])]))

(* loadInitialState: one person, and the whole state.  Properties of the   *)
(* stored person other than the eleven of PersonState are carried along by *)
(* the spread but never read; they are left out.                           *)
LoadPerson(fallback, stored) ==
  IF ~IsTruthy(stored) THEN fallback ELSE
  LET storedPaychecks == Get(stored, "paychecks")
      storedName == Get(stored, "name")
  IN [id |-> fallback.id,
      name |-> IF IsString(storedName) /\ ~IsBlank(storedName.string)
                 THEN storedName.string ELSE fallback.name,
      payPeriod |-> sanitizePayPeriod(Get(stored, "payPeriod"), fallback.payPeriod),
      paychecks |-> IF IsArray(storedPaychecks) /\ Len(storedPaychecks.items) > 0
                      THEN [i \in 1..Len(storedPaychecks.items) |->
                              clampNumber(storedPaychecks.items[i], Zero)]
                      ELSE fallback.paychecks,
      bills |-> sanitizeBills(Get(stored, "bills"), fallback.bills, fallback.id),
      groceries |-> clampNumber(Get(stored, "groceries"), fallback.groceries),
      gas |-> clampNumber(Get(stored, "gas"), fallback.gas),
      savingsRate |-> clampRate(Get(stored, "savingsRate"), fallback.savingsRate),
      wantsRate |-> clampRate(Get(stored, "wantsRate"), fallback.wantsRate),
      startingDebt |-> clampNumber(Get(stored, "startingDebt"), fallback.startingDebt),
      startingSavings |-> clampNumber(Get(stored, "startingSavings"), fallback.startingSavings)]

(* Variant of loadInitialState: a document without a persons array is    *)
(* read like any other.                                                   *)
loadInitialStateWithoutPersons(raw) ==
  IF raw.kind \in {"none", "empty", "malformed"} THEN createDefaultState
  ELSE LET parsed == raw.value
           fallbackState == createDefaultState
       IN IF ~IsTruthy(parsed)
            THEN fallbackState
            ELSE [rent |-> clampNumber(Get(parsed, "rent"), fallbackState.rent),
                  rentMode |-> IF Get(parsed, "rentMode") = JStr("equal") THEN "equal" ELSE "fair",
                  persons |-> [i \in 1..Len(fallbackState.persons) |->
                                 LoadPerson(fallbackState.persons[i],
                                            At(Get(parsed, "persons"), i - 1))]]

loadInitialState(raw) ==
  IF raw.kind \in {"none", "empty"} THEN createDefaultState
  ELSE IF raw.kind = "malformed" THEN createDefaultState
  ELSE LET parsed == raw.value
           fallbackState == createDefaultState
       IN IF ~IsTruthy(parsed) \/ ~IsArray(Get(parsed, "persons"))
            THEN fallbackState
            ELSE [rent |-> clampNumber(Get(parsed, "rent"), fallbackState.rent),
                  rentMode |-> IF Get(parsed, "rentMode") = JStr("equal") THEN "equal" ELSE "fair",
                  persons |-> [i \in 1..Len(fallbackState.persons) |->
                                 LoadPerson(fallbackState.persons[i],
                                            At(Get(parsed, "persons"), i - 1))]]

(* Variant of FairShare: the rent is split evenly whatever the incomes. *)
FairShareEvenSplit(income, totalIncome, rent, peopleCount) == Div(rent, Num(peopleCount))

(* Variant of FairShare: without income nobody is charged. *)
FairShareNothingWithoutIncome(income, totalIncome, rent, peopleCount) ==
  IF Le(totalIncome, Zero) THEN Zero ELSE Mul(Div(income, totalIncome), rent)

FairShare(income, totalIncome, rent, peopleCount) ==
  IF Le(totalIncome, Zero)
    THEN Div(rent, Num(peopleCount))
    ELSE Mul(Div(income, totalIncome), rent)

EqualShare(rent, peopleCount) == IF peopleCount > 0 THEN Div(rent, Num(peopleCount)) ELSE Zero

(* The values App derives from the state on every render. *)
incomes(st) ==
  [i \in 1..Len(st.persons) |->
     monthlyFromPay(average(st.persons[i].paychecks), st.persons[i].payPeriod)]

totalIncome(st) == SumSeq(incomes(st))

(* Variant of peopleCount: the number of persons, also when there is none. *)
peopleCountOfPersons(st) == Len(st.persons)

peopleCount(st) == IF Len(st.persons) = 0 THEN 1 ELSE Len(st.persons)

rentSharesFair(st) ==
  LET inc == incomes(st)
      total == SumSeq(inc)
  IN [i \in 1..Len(inc) |-> FairShare(inc[i], total, st.rent, peopleCount(st))]

rentSharesEqual(st) ==
  [i \in 1..Len(st.persons) |-> EqualShare(st.rent, peopleCount(st))]

rentShares(st) == IF st.rentMode = "fair" THEN rentSharesFair(st) ELSE rentSharesEqual(st)

budgets(st) ==
  LET shares == rentShares(st)
  IN [i \in 1..Len(st.persons) |-> computeBudgetPerson(st.persons[i], shares[i])]

payoffs(st) ==
  LET b == budgets(st)
  IN [i \in 1..Len(st.persons) |-> payoffMonths(st.persons[i].startingDebt, b[i].debt)]

savingsSeries(st) ==
  LET b == budgets(st)
      p == payoffs(st)
  IN [i \in 1..Len(st.persons) |->
        savingsProjection([startingSavings |-> st.persons[i].startingSavings,
                           monthlySavings |-> b[i].savings,
                           months |-> SAVINGS_MONTHS,
                           debtContribution |-> b[i].debt,
                           payoff |-> p[i]])]

thirtyRule(st) ==
  LET inc == incomes(st)
  IN [i \in 1..Len(inc) |-> Mul(inc[i], Rat(3, 10))]

totalAffordableRent(st) == SumSeq(thirtyRule(st))

(* Variant of affordable: rent strictly below the 30% total. *)
affordableStrict(st) == Lt(st.rent, totalAffordableRent(st))

affordable(st) == Le(st.rent, totalAffordableRent(st))

rentVerdictLabel(st) == IF affordable(st) THEN "Affordable" ELSE "Stretch"

(* The states the application starts in: two persons, each with at least   *)
(* one paycheck, every number finite and >= 0.                             *)
AppPaycheckInputs == {Zero, Num(60)}
AppRentInputs == {Zero, Num(1500), Cents(9999)}

NonEmptySeqsUpTo(S, n) == UNION {[1..k -> S] : k \in 1..n}

PersonInputs(id, name) ==
  {[id |-> id, name |-> name, paychecks |-> pc, payPeriod |-> pp,
    bills |-> <<[id |-> "bill-1", label |-> "Utilities", amount |-> Num(10)]>>,
    groceries |-> Num(20), gas |-> Zero,
    savingsRate |-> Rat(1, 5), wantsRate |-> Rat(1, 5),
    startingDebt |-> Zero, startingSavings |-> Cents(51562)] :
     pc \in NonEmptySeqsUpTo(AppPaycheckInputs, MaxPaychecks), pp \in PAY_PERIODS}

AppStateInputs ==
  {[rent |-> r, rentMode |-> m, persons |-> <<p1, p2>>] :
     r \in AppRentInputs, m \in RentModes,
     p1 \in PersonInputs("person-1", "Person 1"),
     p2 \in PersonInputs("person-2", "Person 2")}

(* The number of events handled so far, where it is counted. *)
MaxEvents == 1

CountingEvents == locals.pc = "events"

EventCounted ==
  IF CountingEvents
    THEN /\ locals.events < MaxEvents
         /\ locals' = [locals EXCEPT !.events = @ + 1]
    ELSE UNCHANGED locals

(* The effect that follows every change of the state: it runs after the  *)
(* render the change causes and before the next event is handled.         *)
(* Variant of SaveEffect: nothing is written while no document is stored. *)
SaveEffectKeepsCleared ==
  storage' = IF storage = NoDocument THEN NoDocument ELSE JSONStringify(state')

SaveEffect == storage' = JSONStringify(state')

InitApp ==
  /\ fn = "App"
  /\ args = NoRet
  /\ locals = NoLocals
  /\ ret = NoRet
  /\ state \in AppStateInputs
  /\ storage = JSONStringify(state)

setRent(value) ==
  /\ fn = "App"
  /\ EventCounted
  /\ state' = [state EXCEPT !.rent = clampNumber(JStr(value), state.rent)]
  /\ SaveEffect
  /\ UNCHANGED <<fn, args, ret>>

toggleRentMode(mode) ==
  /\ fn = "App"
  /\ EventCounted
  /\ state' = [state EXCEPT !.rentMode = mode]
  /\ SaveEffect
  /\ UNCHANGED <<fn, args, ret>>

NextApp ==
  \/ \E value \in TextInputs : setRent(value)
  \/ \E mode \in RentModes : toggleRentMode(mode)

SpecApp == InitApp /\ [][NextApp]_vars

(* C10: fair rent split. Whenever the total monthly income of all persons  *)
(* is positive, person i's fair share is rent*income_i/totalIncome, the    *)
(* fair shares of all persons sum to the total rent, and two persons with  *)
(* equal income get equal shares.                                          *)
C10_FairSplit ==
  (fn = "App" /\ Gt(totalIncome(state), Zero)) =>
    LET inc == incomes(state)
        fair == rentSharesFair(state)
    IN /\ \A i \in 1..Len(state.persons) :
            fair[i] = Div(Mul(state.rent, inc[i]), totalIncome(state))
       /\ SumSeq(fair) = state.rent
       /\ \A i, j \in 1..Len(state.persons) : inc[i] = inc[j] => fair[i] = fair[j]

C10_Witness ==
  /\ fn = "App"
  /\ state.rent = Rat(33335, 1000)
  /\ Gt(incomes(state)[1], incomes(state)[2])
  /\ Gt(incomes(state)[2], Zero)
  /\ roundCurrency(rentSharesFair(state)[1]) # rentSharesFair(state)[1]
  /\ Gt(rentSharesFair(state)[1], rentSharesFair(state)[2])
  /\ Add(rentSharesFair(state)[1], rentSharesFair(state)[2]) = state.rent

(* C11: fair rent split without income. When the total income is <= 0,     *)
(* every person's fair share is rent/personCount, an even split, and the  *)
(* shares still sum to rent.                                               *)
C11_FairSplitWithoutIncome ==
  (fn = "App" /\ Le(totalIncome(state), Zero)) =>
    LET fair == rentSharesFair(state)
    IN /\ Len(fair) = Len(state.persons)
       /\ \A i \in 1..Len(fair) : fair[i] = Div(state.rent, Num(Len(state.persons)))
       /\ SumSeq(fair) = state.rent

C11_Witness ==
  /\ fn = "App"
  /\ totalIncome(state) = Zero
  /\ state.rent = Rat(33335, 1000)
  /\ rentSharesFair(state) = <<Rat(33335, 2000), Rat(33335, 2000)>>
-----------------------------------------------------------------------------
(* The rent allocation for any number of persons, none included: the same  *)
(* setters over states with 0..MaxPersons persons of one paycheck each.    *)

MaxPersons == 2

AllocatorPersonInputs ==
  {p \in PersonInputs("person", "Person") : Len(p.paychecks) = 1}

AllocatorStateInputs ==
  {[rent |-> r, rentMode |-> m, persons |-> ps] :
     r \in AppRentInputs, m \in RentModes,
     ps \in SeqsUpTo(AllocatorPersonInputs, MaxPersons)}

InitAllocator ==
  /\ fn = "App"
  /\ args = NoRet
  /\ locals = NoLocals
  /\ ret = NoRet
  /\ state \in AllocatorStateInputs
  /\ storage = JSONStringify(state)

SpecAllocator == InitAllocator /\ [][NextApp]_vars

(* C12: equal rent split. Every person's equal share is rent/personCount,  *)
(* where personCount is the number of persons, or 1 when there is none;    *)
(* with at least one person the equal shares sum to rent.                  *)
C12_EqualSplit ==
  fn = "App" =>
    LET n == Len(state.persons)
        equal == rentSharesEqual(state)
    IN /\ peopleCount(state) = (IF n = 0 THEN 1 ELSE n)
       /\ Len(equal) = n
       /\ \A i \in 1..n : equal[i] = Div(state.rent, Num(n))
       /\ n >= 1 => SumSeq(equal) = state.rent

C12_Witness ==
  /\ fn = "App"
  /\ Len(state.persons) = 2
  /\ state.rent = Rat(33335, 1000)
  /\ rentSharesEqual(state) = <<Rat(33335, 2000), Rat(33335, 2000)>>
  /\ rentSharesFair(state) # rentSharesEqual(state)
(* C13: rent verdict. The verdict is 'Affordable' exactly when rent is at  *)
(* most the sum over persons of 0.30 x monthly income, and 'Stretch'       *)
(* otherwise; it is advisory only: in every state, whatever the verdict,   *)
(* setRent accepts every finite non-negative rent and stores it.           *)
FiniteNonNegative(x) == IsFinite(x) /\ Ge(x, Zero)

C13_VerdictIsAdvisory ==
  fn = "App" =>
    LET inc == incomes(state)
        limit == SumSeq([i \in 1..Len(inc) |-> Mul(Rat(30, 100), inc[i])])
    IN /\ rentVerdictLabel(state) \in {"Affordable", "Stretch"}
       /\ rentVerdictLabel(state) = "Affordable" <=> Le(state.rent, limit)
       /\ \A value \in TextInputs :
            FiniteNonNegative(Number(value)) =>
              ENABLED (setRent(value) /\ state'.rent = Number(value))

C13_Witness ==
  /\ fn = "App"
  /\ state.rent = Rat(33335, 1000)
  /\ Gt(totalIncome(state), Zero)
  /\ Gt(state.rent, totalAffordableRent(state))
  /\ rentVerdictLabel(state) = "Stretch"
  /\ ENABLED (setRent("1500") /\ state'.rent = Num(1500))
-----------------------------------------------------------------------------
(* Calls of average and monthlyFromPay *)

MaxValues == 3

ValueInputs == {Zero, Num(50), Cents(1001), Num(-5), NaN, PosInf}
AverageInputs ==
  {Zero, Num(100), Cents(234297), Rat(1, 400), Rat(3, 2600), Rat(3, 1300),
   Rat(1, 3), Num(-7), NaN, PosInf, NegInf}
IncomePeriodInputs == PAY_PERIODS \cup {"Monthly", "", "constructor", "toString"}

InitIncome ==
  /\ \/ /\ fn = "average"
        /\ args \in [values : SeqsUpTo(ValueInputs, MaxValues)]
     \/ /\ fn = "monthlyFromPay"
        /\ args \in [averagePaycheck : AverageInputs, period : IncomePeriodInputs]
  /\ locals = NoLocals
  /\ ret = NoRet
  /\ AppIdle

CallAverage ==
  /\ fn = "average"
  /\ ret = NoRet
  /\ ret' = average(args.values)
  /\ UNCHANGED <<fn, args, locals, appVars>>

CallMonthlyFromPay ==
  /\ fn = "monthlyFromPay"
  /\ ret = NoRet
  /\ ret' = monthlyFromPay(args.averagePaycheck, args.period)
  /\ UNCHANGED <<fn, args, locals, appVars>>

NextIncome == CallAverage \/ CallMonthlyFromPay

SpecIncome == InitIncome /\ [][NextIncome]_vars

MonthlyFromPayReturned == fn = "monthlyFromPay" /\ ret # NoRet

(* The value x to whole cents with halves rounded up: r is c cents for the *)
(* whole number c with c - 1/2 <= 100x < c + 1/2, that is, with q and m    *)
(* the quotient and remainder of 100x = n/d, c is q + 1 if 2m >= d, else q.*)
IsHalfUpCents(r, x) ==
  /\ IsFinite(r)
  /\ IsFinite(x)
  /\ LET c == Mul(r, Num(100))
         y == Mul(x, Num(100))
         q == y.num \div y.den
         m == y.num % y.den
     IN /\ c.den = 1
        /\ c.num = (IF 2 * m >= y.den THEN q + 1 ELSE q)

(* C14: monthlyFromPay(avg, period) for one of the three periods is the    *)
(* average clamped to >= 0 times the period's factor (Semimonthly 2,       *)
(* Weekly 52/12, Biweekly 26/12), rounded half-up to cents; a negative or  *)
(* non-finite average yields 0.                                            *)
C14_MonthlyFromPay ==
  (MonthlyFromPayReturned /\ args.period \in PAY_PERIODS) =>
    LET avg == args.averagePaycheck
        clamped == IF IsFinite(avg) /\ Ge(avg, Zero) THEN avg ELSE Zero
        factor == CASE args.period = "Semimonthly" -> Num(2)
                    [] args.period = "Weekly" -> Rat(52, 12)
                    [] args.period = "Biweekly" -> Rat(26, 12)
    IN /\ IsHalfUpCents(ret, Mul(clamped, factor))
       /\ (~IsFinite(avg) \/ Lt(avg, Zero)) => ret = Zero

C14_Witness ==
  /\ MonthlyFromPayReturned
  /\ args.period = "Weekly"
  /\ args.averagePaycheck = Rat(3, 2600)
  /\ ret = Cents(1)

(* C15: monthlyFromPay fails with the unknown-pay-period error for every   *)
(* period outside {Semimonthly, Weekly, Biweekly} and for none inside it.  *)
C15_UnknownPeriodFails ==
  MonthlyFromPayReturned =>
    (ret = UnknownPayPeriod <=> args.period \notin PAY_PERIODS)

AverageReturned == fn = "average" /\ ret # NoRet

(* C16: average is 0 for an empty sequence; otherwise it is the sum of the *)
(* entries, each negative or non-finite entry counted as 0, divided by the *)
(* full number of entries.                                                 *)
C16_AverageOverFullCount ==
  AverageReturned =>
    LET values == args.values
        counted == [i \in 1..Len(values) |->
                      IF IsFinite(values[i]) /\ Ge(values[i], Zero)
                        THEN values[i] ELSE Zero]
    IN IF Len(values) = 0
         THEN ret = Zero
         ELSE ret = Div(SumSeq(counted), Num(Len(values)))

C16_Witness ==
  /\ AverageReturned
  /\ args.values = <<Num(50), NaN, Num(-5)>>
  /\ ret = Rat(50, 3)
-----------------------------------------------------------------------------
(* computeBudgetPerson: percentages and rates *)

CategoryValue(b, k) ==
  CASE k = "Rent" -> b.rent
    [] k = "Bills" -> b.bills
    [] k = "Groceries" -> b.groceries
    [] k = "Gas" -> b.gas
    [] k = "Savings" -> b.savings
    [] k = "Wants" -> b.wants
    [] k = "Debt" -> b.debt

(* x/base as a percentage, rounded half-up to two decimals. *)
IsPercentOf(p, x, base) == IsHalfUpCents(p, Mul(Div(x, base), Num(100)))

IncomeNonNegative == BudgetReturned /\ Ge(ret.monthlyIncome, Zero)

(* C17 as stated: for every monthlyIncome >= 0, incomes strictly between 0 *)
(* and 1 included, each of the seven category percentages is               *)
(* min(100, round(value / max(monthlyIncome, 1) * 100, 2)), and lies in    *)
(* [0, 100].                                                               *)
C17_PercentOfIncomeAtLeastOne ==
  IncomeNonNegative =>
    \A k \in Categories :
      LET base == IF Lt(ret.monthlyIncome, Num(1)) THEN Num(1) ELSE ret.monthlyIncome
          p == ret.percentages[k]
      IN /\ Ge(p, Zero) /\ Le(p, Num(100))
         /\ \/ p = Num(100) /\ Ge(Mul(Div(CategoryValue(ret, k), base), Num(100)), Cents(9995))
            \/ Lt(p, Num(100)) /\ IsPercentOf(p, CategoryValue(ret, k), base)

(* C17 as the code has it: the divisor is monthlyIncome whenever it is     *)
(* positive, also below 1, and 1 only when monthlyIncome is 0; every       *)
(* category percentage lies in [0, 100].                                   *)
C17_PercentOfPositiveIncome ==
  IncomeNonNegative =>
    \A k \in Categories :
      LET base == IF ret.monthlyIncome = Zero THEN Num(1) ELSE ret.monthlyIncome
          p == ret.percentages[k]
      IN /\ Ge(p, Zero) /\ Le(p, Num(100))
         /\ \/ p = Num(100) /\ Ge(Mul(Div(CategoryValue(ret, k), base), Num(100)), Cents(9995))
            \/ Lt(p, Num(100)) /\ IsPercentOf(p, CategoryValue(ret, k), base)

C17_Witness ==
  /\ BudgetReturned
  /\ ret.monthlyIncome = Rat(1, 2)
  /\ ret.bills = Cents(1)
  /\ ret.percentages["Bills"] = Num(2)
  /\ ret.percentages["Rent"] = Num(100)
(* C18: the three aggregate percentages are all 0 when monthlyIncome is 0; *)
(* otherwise needsPercentage is (rent+bills+groceries+gas)/income*100,     *)
(* wantsPercentage is wants/income*100 and savingsDebtPercentage is        *)
(* (savings+debt)/income*100, each rounded to two decimals and not capped  *)
(* at 100.                                                                 *)
C18_AggregatePercentages ==
  IncomeNonNegative =>
    LET income == ret.monthlyIncome
        needs == Add(Add(Add(ret.rent, ret.bills), ret.groceries), ret.gas)
    IN IF income = Zero
         THEN /\ ret.needsPercentage = Zero
              /\ ret.wantsPercentage = Zero
              /\ ret.savingsDebtPercentage = Zero
         ELSE /\ IsPercentOf(ret.needsPercentage, needs, income)
              /\ IsPercentOf(ret.wantsPercentage, ret.wants, income)
              /\ IsPercentOf(ret.savingsDebtPercentage, Add(ret.savings, ret.debt), income)

C18_Witness ==
  /\ BudgetReturned
  /\ ret.monthlyIncome = Num(100)
  /\ ret.rent = Num(30)
  /\ ret.savings = Num(100)
  /\ ret.needsPercentage = Cents(6551)
  /\ ret.savingsDebtPercentage = Num(100)
  /\ Gt(Add(ret.needsPercentage, ret.savingsDebtPercentage), Num(100))

(* C19: savings is monthlyIncome * clamp(savingsRate, 0, 1) and wants is   *)
(* monthlyIncome * clamp(wantsRate, 0, 1), each rounded to cents; a rate   *)
(* below 0 or non-finite counts as 0, a rate above 1 as 1, so savings and  *)
(* wants each lie in [0, monthlyIncome].                                   *)
RateCounted(rate) ==
  IF ~IsFinite(rate) \/ Lt(rate, Zero) THEN Zero
  ELSE IF Gt(rate, Num(1)) THEN Num(1)
  ELSE rate

C19_SavingsAndWantsFromRates ==
  IncomeNonNegative =>
    LET income == ret.monthlyIncome
    IN /\ IsHalfUpCents(ret.savings, Mul(income, RateCounted(args.person.savingsRate)))
       /\ IsHalfUpCents(ret.wants, Mul(income, RateCounted(args.person.wantsRate)))
       /\ Ge(ret.savings, Zero) /\ Le(ret.savings, income)
       /\ Ge(ret.wants, Zero) /\ Le(ret.wants, income)

C19_Witness ==
  /\ BudgetReturned
  /\ args.person.savingsRate = Num(2)
  /\ args.person.wantsRate = Rat(-1, 2)
  /\ Gt(ret.monthlyIncome, Zero)
  /\ ret.savings = ret.monthlyIncome
  /\ ret.wants = Zero

(* C20: for the person-1 template (five paychecks of 2342.97, Semimonthly, *)
(* bills summing to 456.63, groceries 400, gas 120, savingsRate 0.2,       *)
(* wantsRate 0.2) and rentShare 1000, computeBudgetPerson returns          *)
(* monthlyIncome 4685.94, savings 937.19, wants 937.19 and debt 834.93.    *)
PersonOneScenario ==
  /\ fn = "computeBudgetPerson"
  /\ args.person.paychecks = [i \in 1..5 |-> Cents(234297)]
  /\ args.person.payPeriod = "Semimonthly"
  /\ Len(args.person.bills) = 7
  /\ SumSeq([i \in 1..7 |-> args.person.bills[i].amount]) = Cents(45663)
  /\ args.person.groceries = Num(400)
  /\ args.person.gas = Num(120)
  /\ args.person.savingsRate = Rat(1, 5)
  /\ args.person.wantsRate = Rat(1, 5)
  /\ args.rentShare = Num(1000)

C20_PersonOneScenario ==
  (PersonOneScenario /\ ret # NoRet) =>
    /\ ret.monthlyIncome = Cents(468594)
    /\ ret.savings = Cents(93719)
    /\ ret.wants = Cents(93719)
    /\ ret.debt = Cents(83493)

C20_Witness ==
  /\ PersonOneScenario
  /\ args.person = PERSON_TEMPLATES[1]
  /\ ret # NoRet
  /\ ret # UnknownPayPeriod
  /\ ret.bills = Cents(45663)
  /\ ret.debt = Cents(83493)
-----------------------------------------------------------------------------
(* Starting the application: the state is loaded from the stored document  *)
(* and the save effect of the first render writes it back.                 *)

StoredPerson(id, name) ==
  [id |-> id, name |-> name,
   paychecks |-> <<Num(60), Rat(1, 4)>>,
   payPeriod |-> "Weekly",
   bills |-> <<[id |-> "bill-x7", label |-> "Phone", amount |-> Num(10)],
               [id |-> "bill-k2", label |-> "Gym", amount |-> Cents(1550)]>>,
   groceries |-> Num(20), gas |-> Cents(1550),
   savingsRate |-> Rat(1, 10), wantsRate |-> Rat(3, 10),
   startingDebt |-> Num(100), startingSavings |-> Num(500)]

StoredState ==
  [rent |-> Num(1500), rentMode |-> "equal",
   persons |-> <<StoredPerson("person-1", "Ana"), StoredPerson("person-2", "Ben")>>]

(* What a document may hold in the place of one field; 1e999 is read as    *)
(* Infinity, and a missing field reads as undefined.                       *)
FieldValueInputs ==
  {JNum(Num(-5)), JNum(Rat(33335, 1000)), JNum(Zero), JNum(PosInf), JNull,
   JStr("1500"), JStr("abc"), JStr(""), JBool(TRUE), JArr(<<>>), Undefined}

PersonFieldNames ==
  {"name", "payPeriod", "paychecks", "bills", "groceries", "gas",
   "savingsRate", "wantsRate", "startingDebt", "startingSavings"}

WithField(object, key, v) == JObj([object.fields EXCEPT ![key] = v])
WithItem(array, index, v) == JArr([array.items EXCEPT ![index] = v])

StoredJSON == JSONStringify(StoredState).value
StoredPersonJSON(i) == Get(StoredJSON, "persons").items[i]

WithPersons(persons) == WithField(StoredJSON, "persons", JArr(persons))
WithFirstPerson(person) == WithPersons(<<person, StoredPersonJSON(2)>>)

DegenerateValueInputs ==
  {JNull, JNum(Zero), JNum(Num(5)), JStr(""), JStr("abc"), JBool(FALSE), JBool(TRUE),
   JArr(<<>>), JArr(<<StoredPersonJSON(1)>>), JObj(<<>>),
   JObj([rent |-> JNum(Num(1500)), rentMode |-> JStr("equal")]),
   WithField(StoredJSON, "persons", JNull),
   WithField(StoredJSON, "persons", JStr("abc")),
   WithField(StoredJSON, "persons", StoredPersonJSON(1))}

StoredValueInputs ==
  DegenerateValueInputs
    \cup {StoredJSON}
    \cup {WithField(StoredJSON, "rent", v) : v \in FieldValueInputs}
    \cup {WithField(StoredJSON, "rentMode", v) : v \in {JStr("fair"), JStr("abc"), JNull}}
    \cup {WithPersons(ps) :
            ps \in {<<>>, <<StoredPersonJSON(1)>>, <<JNull, StoredPersonJSON(2)>>,
                    <<JNum(Num(5)), JStr("abc")>>, <<JObj(<<>>), JBool(TRUE)>>,
                    <<StoredPersonJSON(1), StoredPersonJSON(2), StoredPersonJSON(1)>>}}
    \cup {WithFirstPerson(WithField(StoredPersonJSON(1), key, v)) :
            key \in PersonFieldNames, v \in FieldValueInputs}
    \cup {WithFirstPerson(WithField(StoredPersonJSON(1), "payPeriod", JStr(pp))) :
            pp \in PAY_PERIODS \cup {"constructor"}}
    \cup {WithFirstPerson(WithField(StoredPersonJSON(1), "paychecks",
            WithItem(Get(StoredPersonJSON(1), "paychecks"), 2, v))) : v \in FieldValueInputs}
    \cup {WithFirstPerson(WithField(StoredPersonJSON(1), "bills",
            WithItem(Get(StoredPersonJSON(1), "bills"), 2, v))) :
              v \in FieldValueInputs \cup {JObj(<<>>)}}
    \cup {WithFirstPerson(WithField(StoredPersonJSON(1), "bills",
            WithItem(Get(StoredPersonJSON(1), "bills"), 1,
                     WithField(Get(StoredPersonJSON(1), "bills").items[1], "amount", v)))) :
              v \in FieldValueInputs}

StoredDocumentInputs ==
  {NoDocument, EmptyText, MalformedText} \cup {JSONText(v) : v \in StoredValueInputs}

InitLoad ==
  /\ fn = "loadInitialState"
  /\ args \in [raw : StoredDocumentInputs]
  /\ locals = NoLocals
  /\ ret = NoRet
  /\ state = NoState
  /\ storage = args.raw

Mount ==
  /\ fn = "loadInitialState"
  /\ fn' = "App"
  /\ state' = loadInitialState(storage)
  /\ SaveEffect
  /\ UNCHANGED <<args, locals, ret>>

NextLoad == Mount

SpecLoad == InitLoad /\ [][NextLoad]_vars

Loaded == fn = "App"

(* The stored document is absent, is not parseable JSON, parses to a       *)
(* non-object, or has no persons array.                                    *)
HasNoPersonsArray(raw) ==
  \/ raw.kind \in {"none", "empty", "malformed"}
  \/ /\ raw.kind = "json"
     /\ \/ raw.value.type # "object"
        \/ "persons" \notin DOMAIN raw.value.fields
        \/ raw.value.fields["persons"].type # "array"

(* C21: loadInitialState returns the built-in default state (rent 2169.17, *)
(* mode fair, the two template profiles unchanged) whenever the stored     *)
(* document is absent, is not parseable JSON, parses to a non-object or    *)
(* has no persons array; it always returns a state.                        *)
C21_DefaultsForUnusableDocument ==
  Loaded =>
    /\ DOMAIN state = {"rent", "rentMode", "persons"}
    /\ HasNoPersonsArray(args.raw) =>
         /\ state.rent = Cents(216917)
         /\ state.rentMode = "fair"
         /\ state.persons = PERSON_TEMPLATES

C21_Witness ==
  /\ Loaded
  /\ args.raw = JSONText(JObj([rent |-> JNum(Num(1500)), rentMode |-> JStr("equal")]))
  /\ state.rent = Cents(216917)
  /\ state.rentMode = "fair"
  /\ Len(state.persons) = 2
  /\ state.persons[2].startingSavings = Cents(1105734)
(* A stored value that is a finite non-negative number, and the value the  *)
(* field has after the load if such values are kept and all others are     *)
(* replaced by the default.                                                *)
IsStoredAmount(v) == v.type = "number" /\ IsFinite(v.number) /\ Ge(v.number, Zero)
KeptOrDefault(v, default) == IF IsStoredAmount(v) THEN v.number ELSE default

AmountFieldNames == {"groceries", "gas", "startingDebt", "startingSavings"}

(* C22: on load, each numeric field of the stored document (rent, every    *)
(* paycheck, every bill amount, groceries, gas, startingDebt,              *)
(* startingSavings) that is not a finite non-negative number is replaced   *)
(* by the template default for that field, independently of the other      *)
(* fields, and each valid field is kept as stored.                         *)
C22_InvalidFieldsTakeTemplateDefault ==
  (Loaded /\ ~HasNoPersonsArray(args.raw)) =>
    LET parsed == args.raw.value
    IN /\ state.rent = KeptOrDefault(Get(parsed, "rent"), Cents(216917))
       /\ \A i \in 1..Len(PERSON_TEMPLATES) :
            LET stored == At(Get(parsed, "persons"), i - 1)
                template == PERSON_TEMPLATES[i]
                person == state.persons[i]
                paychecks == Get(stored, "paychecks")
                bills == Get(stored, "bills")
            IN stored.type = "object" =>
                 /\ \A key \in AmountFieldNames :
                      person[key] = KeptOrDefault(Get(stored, key), template[key])
                 /\ (IsArray(paychecks) /\ Len(paychecks.items) > 0) =>
                      /\ Len(person.paychecks) = Len(paychecks.items)
                      /\ \A j \in 1..Len(paychecks.items) :
                           person.paychecks[j] =
                             KeptOrDefault(paychecks.items[j], template.paychecks[j])
                 /\ (IsArray(bills) /\ Len(bills.items) > 0) =>
                      /\ Len(person.bills) = Len(bills.items)
                      /\ \A j \in 1..Len(bills.items) :
                           person.bills[j].amount =
                             KeptOrDefault(Get(bills.items[j], "amount"),
                                           template.bills[j].amount)
-----------------------------------------------------------------------------
(* src/src/components/PersonCard.tsx: the handlers, each giving the person *)
(* it hands to onChange.                                                   *)

(* Variant of numberFromInput: a negative number is passed on. *)
numberFromInputSigned(value) ==
  LET parsed == Number(value)
  IN IF ~IsFinite(parsed) THEN Zero ELSE parsed

numberFromInput(value) ==
  LET parsed == Number(value)
  IN IF ~IsFinite(parsed) \/ Lt(parsed, Zero) THEN Zero ELSE parsed

randomId == {"k3x9q2m1a", "z8w7v6u5t"}

createCardBill(label, amount, random) ==
  [id |-> "bill-" \o random, label |-> label, amount |-> amount]

RemoveAt(items, index) ==
  [j \in 1..(Len(items) - 1) |-> IF j < index + 1 THEN items[j] ELSE items[j + 1]]

handleFieldChange(person, key, value) == [person EXCEPT ![key] = value]

handlePayPeriodChange(person, value) == handleFieldChange(person, "payPeriod", value)

handlePaycheckChange(person, index, value) ==
  handleFieldChange(person, "paychecks",
    [j \in 1..Len(person.paychecks) |->
       IF j = index + 1 THEN numberFromInput(value) ELSE person.paychecks[j]])

handleBillAmountChange(person, index, value) ==
  handleFieldChange(person, "bills",
    [j \in 1..Len(person.bills) |->
       IF j = index + 1
         THEN [person.bills[j] EXCEPT !.amount = numberFromInput(value)]
         ELSE person.bills[j]])

handleBillLabelChange(person, index, value) ==
  handleFieldChange(person, "bills",
    [j \in 1..Len(person.bills) |->
       IF j = index + 1 THEN [person.bills[j] EXCEPT !.label = value] ELSE person.bills[j]])

addPaycheck(person) ==
  handleFieldChange(person, "paychecks", Append(person.paychecks, Zero))

(* Variant of removePaycheck: the last paycheck can be removed too. *)
removePaycheckToEmpty(person, index) ==
  handleFieldChange(person, "paychecks", RemoveAt(person.paychecks, index))

removePaycheck(person, index) ==
  LET next == RemoveAt(person.paychecks, index)
  IN handleFieldChange(person, "paychecks", IF Len(next) > 0 THEN next ELSE <<Zero>>)

addBill(person, random) ==
  handleFieldChange(person, "bills",
    Append(person.bills, createCardBill(BillLabel(Len(person.bills)), Zero, random)))

removeBill(person, random, index) ==
  LET next == RemoveAt(person.bills, index)
  IN handleFieldChange(person, "bills",
       IF Len(next) > 0 THEN next ELSE <<createCardBill("Bill 1", Zero, random)>>)

(* The texts a slider between 0 and 80 can hand over, the names typed and  *)
(* the rows of a list that are edited: the first and the last.             *)
SliderInputs == {"0", "20", "80"}
NameInputs == {"", "Cy"}
AmountTextInputs == {"", "-5", "33.335"}
EdgeRows(items) == {0, Len(items) - 1}

-----------------------------------------------------------------------------
(* The application with its storage: started from a stored document, then  *)
(* at most MaxEvents events.                                               *)

(* Variant of updatePerson: the person handed over is stored as it is. *)
ReplacePersonKeepingNextId(person, id, nextPerson) ==
  IF person.id = id THEN nextPerson ELSE person

ReplacePerson(person, id, nextPerson) ==
  IF person.id = id THEN [nextPerson EXCEPT !.id = id] ELSE person

updatePerson(id, nextPerson) ==
  /\ fn = "App"
  /\ EventCounted
  /\ state' = [state EXCEPT !.persons =
                 [i \in 1..Len(state.persons) |-> ReplacePerson(state.persons[i], id, nextPerson)]]
  /\ SaveEffect
  /\ UNCHANGED <<fn, args, ret>>

resetState ==
  /\ fn = "App"
  /\ EventCounted
  /\ state' = createDefaultState
  /\ storage' = JSONStringify(createDefaultState)
  /\ SaveEffect
  /\ UNCHANGED <<fn, args, ret>>

clearPersistedState ==
  /\ fn = "App"
  /\ EventCounted
  /\ storage' = NoDocument
  /\ UNCHANGED <<fn, args, ret, state>>

(* The page is loaded again. *)
Reload ==
  /\ fn = "App"
  /\ EventCounted
  /\ args' = [raw |-> storage]
  /\ state' = loadInitialState(storage)
  /\ SaveEffect
  /\ UNCHANGED <<fn, ret>>

Card(i, nextPerson) == updatePerson(state.persons[i].id, nextPerson)

Persons == IF fn = "App" THEN 1..Len(state.persons) ELSE {}

ChangeName ==
  \E i \in Persons, value \in NameInputs :
    Card(i, handleFieldChange(state.persons[i], "name", value))
ChangePayPeriod ==
  \E i \in Persons, value \in PAY_PERIODS :
    Card(i, handlePayPeriodChange(state.persons[i], value))
ChangePaycheck ==
  \E i \in Persons, value \in AmountTextInputs :
    \E index \in EdgeRows(state.persons[i].paychecks) :
      Card(i, handlePaycheckChange(state.persons[i], index, value))
AddPaycheck ==
  \E i \in Persons : Card(i, addPaycheck(state.persons[i]))
RemovePaycheck ==
  \E i \in Persons :
    \E index \in EdgeRows(state.persons[i].paychecks) :
      Card(i, removePaycheck(state.persons[i], index))
ChangeBillAmount ==
  \E i \in Persons, value \in AmountTextInputs :
    \E index \in EdgeRows(state.persons[i].bills) :
      Card(i, handleBillAmountChange(state.persons[i], index, value))
ChangeBillLabel ==
  \E i \in Persons, value \in NameInputs :
    \E index \in EdgeRows(state.persons[i].bills) :
      Card(i, handleBillLabelChange(state.persons[i], index, value))
AddBill ==
  \E i \in Persons, random \in randomId : Card(i, addBill(state.persons[i], random))
RemoveBill ==
  \E i \in Persons, random \in randomId :
    \E index \in EdgeRows(state.persons[i].bills) :
      Card(i, removeBill(state.persons[i], random, index))
ChangeGroceries ==
  \E i \in Persons, value \in AmountTextInputs :
    Card(i, handleFieldChange(state.persons[i], "groceries", numberFromInput(value)))
ChangeGas ==
  \E i \in Persons, value \in AmountTextInputs :
    Card(i, handleFieldChange(state.persons[i], "gas", numberFromInput(value)))
ChangeSavingsRate ==
  \E i \in Persons, value \in SliderInputs :
    Card(i, handleFieldChange(state.persons[i], "savingsRate",
                              Div(numberFromInput(value), Num(100))))
ChangeWantsRate ==
  \E i \in Persons, value \in SliderInputs :
    Card(i, handleFieldChange(state.persons[i], "wantsRate",
                              Div(numberFromInput(value), Num(100))))
ChangeStartingSavings ==
  \E i \in Persons, value \in AmountTextInputs :
    Card(i, handleFieldChange(state.persons[i], "startingSavings", numberFromInput(value)))
ChangeStartingDebt ==
  \E i \in Persons, value \in AmountTextInputs :
    Card(i, handleFieldChange(state.persons[i], "startingDebt", numberFromInput(value)))

ChangeRent == \E value \in TextInputs : setRent(value)
ChangeRentMode == \E mode \in RentModes : toggleRentMode(mode)

HostilePersonJSON ==
  JObj([id |-> JStr("person-9"),
        name |-> JStr(" "),
        paychecks |-> JArr(<<JNum(Num(-5)), JNull, JStr("1500"), JNum(PosInf)>>),
        payPeriod |-> JStr("constructor"),
        bills |-> JArr(<<JNum(Num(-5)), JObj(<<>>),
                         JObj([id |-> JStr(""), label |-> JNum(Num(5)),
                               amount |-> JNum(PosInf)])>>),
        groceries |-> JNum(PosInf),
        gas |-> JNull,
        savingsRate |-> JNum(Num(2)),
        wantsRate |-> JNum(Num(-5)),
        startingDebt |-> JStr("abc"),
        startingSavings |-> JBool(TRUE)])

HostileJSON ==
  JObj([rent |-> JNum(Num(-5)), rentMode |-> JNum(Num(5)),
        persons |-> JArr(<<HostilePersonJSON, JStr("abc"), StoredPersonJSON(1)>>)])

SingleRowPersonJSON ==
  WithField(WithField(StoredPersonJSON(2), "paychecks", JArr(<<JNum(Num(60))>>)),
            "bills", JArr(<<Get(StoredPersonJSON(2), "bills").items[1]>>))

SingleRowJSON == WithPersons(<<SingleRowPersonJSON, SingleRowPersonJSON>>)

StoreDocumentInputs ==
  {NoDocument, MalformedText, JSONText(StoredJSON), JSONText(HostileJSON),
   JSONText(SingleRowJSON), JSONText(WithPersons(<<>>))}

InitStore ==
  /\ fn = "loadInitialState"
  /\ args \in [raw : StoreDocumentInputs]
  /\ locals = [pc |-> "events", events |-> 0]
  /\ ret = NoRet
  /\ state = NoState
  /\ storage = args.raw

NextStore ==
  \/ Mount
  \/ ChangeRent
  \/ ChangeRentMode
  \/ resetState
  \/ clearPersistedState
  \/ Reload
  \/ ChangeName
  \/ ChangePayPeriod
  \/ ChangePaycheck
  \/ AddPaycheck
  \/ RemovePaycheck
  \/ ChangeBillAmount
  \/ ChangeBillLabel
  \/ AddBill
  \/ RemoveBill
  \/ ChangeGroceries
  \/ ChangeGas
  \/ ChangeSavingsRate
  \/ ChangeWantsRate
  \/ ChangeStartingSavings
  \/ ChangeStartingDebt

SpecStore == InitStore /\ [][NextStore]_vars

IsAmount(x) == IsFinite(x) /\ Ge(x, Zero)
IsRate(x) == IsFinite(x) /\ Ge(x, Zero) /\ Le(x, Num(1))

ValidPerson(person) ==
  /\ \A j \in 1..Len(person.paychecks) : IsAmount(person.paychecks[j])
  /\ \A j \in 1..Len(person.bills) : IsAmount(person.bills[j].amount)
  /\ IsAmount(person.groceries)
  /\ IsAmount(person.gas)
  /\ IsAmount(person.startingDebt)
  /\ IsAmount(person.startingSavings)
  /\ IsRate(person.savingsRate)
  /\ IsRate(person.wantsRate)
  /\ person.payPeriod \in {"Semimonthly", "Weekly", "Biweekly"}

(* C23: in every application state reachable from loadInitialState by      *)
(* setRent, toggleRentMode, reset and PersonCard edits, rent and every     *)
(* currency field of every person are finite and >= 0, savingsRate and     *)
(* wantsRate are in [0, 1] and payPeriod is one of the three periods; so   *)
(* no person's monthly income is the unknown-pay-period error.             *)
C23_ProfilesStayValid ==
  fn = "App" =>
    /\ IsAmount(state.rent)
    /\ \A i \in 1..Len(state.persons) : ValidPerson(state.persons[i])
    /\ \A i \in 1..Len(state.persons) :
         /\ incomes(state)[i] # UnknownPayPeriod
         /\ IsAmount(incomes(state)[i])

C23_Witness ==
  /\ fn = "App"
  /\ locals.pc = "events"
  /\ locals.events = 1
  /\ args.raw = JSONText(HostileJSON)
  /\ state.persons[1].payPeriod = "Semimonthly"
  /\ state.persons[1].paychecks = <<Zero, Zero, Num(1500), Zero>>
  /\ state.persons[1].savingsRate = Num(1)
  /\ state.persons[1].groceries = Num(400)
  /\ state.persons[1].startingSavings = Num(1)
  /\ state.persons[2].wantsRate = Rat(4, 5)

-----------------------------------------------------------------------------
(* Termination of the two loops *)

LoopReturned == locals.pc = "done"

(* The iterations the savings loop makes for a horizon of `months`. *)
SavingsIterations(months) == IF months <= 0 THEN 0 ELSE months

(* The iterations made when the loop was left: the payoff loop counts     *)
(* `month` from 0, the savings loop from 1.                                *)
LoopCounts ==
  /\ (PayoffReturned /\ DebtPositive /\ PaymentPositive)
       => /\ locals.month = ret.months.num + 1
          /\ Len(ret.debtSeries) = ret.months.num + 1
  /\ SavingsReturned
       => /\ locals.month - 1 = SavingsIterations(args.months)
          /\ Len(ret) = SavingsIterations(args.months)

(* The steps a call still has to take before it has returned: entering,   *)
(* one step per remaining iteration, leaving the loop.                     *)
LoopVariant ==
  IF locals.pc = "done" THEN 0
  ELSE IF fn = "payoffMonths"
    THEN IF locals.pc = "loop" THEN locals.months.num + 2 - locals.month
         ELSE LET debt == clampCurrency(args.startingDebt)
                  payment == clampCurrency(args.monthlyPayment)
              IN IF PayoffBranch(debt, payment) = "schedule"
                   THEN PayoffMonthCount(debt, payment).num + 3
                   ELSE 1
    ELSE IF locals.pc = "loop" THEN SavingsIterations(args.months) + 2 - locals.month
         ELSE SavingsIterations(args.months) + 2

LoopAdvances == LoopVariant' = LoopVariant - 1

(* C24: every call of payoffMonths and of savingsProjection returns: each *)
(* step brings the call one step closer to its return, and the number of  *)
(* steps left is a natural number that is 0 exactly when it has returned.  *)
(* payoffMonths with startingDebt > 0 and monthlyPayment > 0 returns after *)
(* exactly months + 1 loop iterations, savingsProjection after exactly     *)
(* `months` iterations, and after none, with an empty result, when         *)
(* months <= 0.                                                            *)
C24_LoopsTerminate ==
  /\ [](LoopCounts /\ LoopVariant >= 0 /\ (LoopReturned <=> LoopVariant = 0))
  /\ [][LoopAdvances]_vars

C24_Witness ==
  /\ PayoffReturned
  /\ args.startingDebt = Num(1200)
  /\ args.monthlyPayment = Num(100)
  /\ locals.month = 13
  /\ Len(ret.debtSeries) = 13


-----------------------------------------------------------------------------
(* savingsProjection: where the balance is rounded *)

(* What month m adds to the balance. *)
ContributionOf(m) ==
  IF FoldsIn(args.payoff, DebtContribution, m)
    THEN Add(MonthlySavings, DebtContribution)
    ELSE MonthlySavings

FoldInMonths(m) == Cardinality({i \in 1..m : FoldsIn(args.payoff, DebtContribution, i)})

(* The balance after month m as the loop keeps it: never rounded. *)
UnroundedBalance(m) ==
  Add(Add(BaseSavings, Mul(Num(m), MonthlySavings)),
      IF FoldInMonths(m) = 0 THEN Zero ELSE Mul(Num(FoldInMonths(m)), DebtContribution))

ReportedBefore(m) == IF m = 1 THEN BaseSavings ELSE locals.points[m - 1].amount

WholeCents(x) == IsFinite(x) /\ roundCurrency(x) = x

-----------------------------------------------------------------------------
(* setRent *)

(* The inputs that spell a number; the empty text and "abc" spell none. *)
NumeralInputs == {"-5", "1500", "33.335", "Infinity", "0", "20", "80"}

SpellsValidAmount(text) == text \in NumeralInputs /\ FiniteNonNegative(Number(text))

(* C26: setRent with an input that is not a finite non-negative number     *)
(* (negative, not a number, infinite) leaves rent at its previous value; a *)
(* finite non-negative input becomes the new rent; in every case rentMode  *)
(* and the persons stay as they are.                                       *)
C26_InvalidRentKeepsPrevious ==
  [][\A value \in TextInputs :
       setRent(value) =>
         /\ state'.rentMode = state.rentMode
         /\ state'.persons = state.persons
         /\ state'.rent = IF SpellsValidAmount(value) THEN Number(value) ELSE state.rent]_vars


-----------------------------------------------------------------------------
(* Persistence: sessions of any length over the rent controls, the name   *)
(* of the first card, reset, clearing the stored document and reloading.  *)

PersistDocumentInputs == {NoDocument, JSONText(StoredJSON)}

InitPersist ==
  /\ fn = "loadInitialState"
  /\ args \in [raw : PersistDocumentInputs]
  /\ locals = NoLocals
  /\ ret = NoRet
  /\ state = NoState
  /\ storage = args.raw

ChangeFirstName ==
  \E value \in NameInputs : Card(1, handleFieldChange(state.persons[1], "name", value))

NextPersist ==
  \/ Mount
  \/ ChangeRent
  \/ ChangeRentMode
  \/ ChangeFirstName
  \/ resetState
  \/ clearPersistedState
  \/ Reload

SpecPersist == InitPersist /\ [][NextPersist]_vars

Cleared == Loaded /\ storage = NoDocument

(* C27: persistence follows state. Once the app is loaded the stored      *)
(* document is the serialization of the current state or is absent; every *)
(* step that changes the state leaves the serialization of the new state  *)
(* in storage; the document only goes away in a step that leaves the      *)
(* state as it is (clearPersistedState); a reload from the cleared        *)
(* storage yields the defaults; and every handler that runs after the     *)
(* clearing writes the full current state back.                            *)
C27_PersistenceFollowsState ==
  /\ [](Loaded => storage \in {JSONStringify(state), NoDocument})
  /\ [](Cleared => loadInitialState(storage) = createDefaultState)
  /\ [][state' # state => storage' = JSONStringify(state')]_vars
  /\ [][storage' = NoDocument => (Loaded /\ state' = state)]_vars
  /\ [][(Cleared /\ Reload) => state' = createDefaultState]_vars
  /\ [][Cleared => storage' = JSONStringify(state')]_vars

C27_Witness ==
  /\ Cleared
  /\ state.rent = Rat(33335, 1000)
  /\ state.rentMode = "equal"
  /\ state # createDefaultState


-----------------------------------------------------------------------------
(* Saving and loading again *)

(* What the engine reads of a person: everything but id, name and the     *)
(* ids and labels of the bills.                                            *)
EngineFields(person) ==
  [paychecks |-> person.paychecks,
   payPeriod |-> person.payPeriod,
   billAmounts |-> [i \in 1..Len(person.bills) |-> person.bills[i].amount],
   groceries |-> person.groceries,
   gas |-> person.gas,
   savingsRate |-> person.savingsRate,
   wantsRate |-> person.wantsRate,
   startingDebt |-> person.startingDebt,
   startingSavings |-> person.startingSavings]

Reloaded == loadInitialState(JSONStringify(state))

(* C28: save/load round trip. For every state reachable through the UI,   *)
(* saving it and loading it again yields the same rent and rentMode and,   *)
(* for each person, the same paychecks, payPeriod, bill amounts,           *)
(* groceries, gas, savingsRate, wantsRate, startingDebt and                *)
(* startingSavings, which is all that the budget, the payoff and the       *)
(* savings projection are computed from.                                   *)
C28_SaveLoadRoundTrip ==
  Loaded =>
    /\ Reloaded.rent = state.rent
    /\ Reloaded.rentMode = state.rentMode
    /\ Len(Reloaded.persons) = Len(state.persons)
    /\ \A i \in 1..Len(state.persons) :
         EngineFields(Reloaded.persons[i]) = EngineFields(state.persons[i])

C28_Witness ==
  /\ Loaded
  /\ locals.events = 1
  /\ state.persons[2].gas = Rat(33335, 1000)
  /\ storage = JSONStringify(state)
  /\ Reloaded.persons[2].gas = Rat(33335, 1000)
  /\ Reloaded.persons[1].paychecks = state.persons[1].paychecks


-----------------------------------------------------------------------------
(* Rows of a card: sessions of any length of adding and removing paychecks *)
(* and bills, the lists kept to MaxRows entries in all.                     *)

MaxRows == 5

RowsOf(person) == Len(person.paychecks) + Len(person.bills)

RowsFit == RowsOf(state.persons[1]) + RowsOf(state.persons[2]) <= MaxRows

InitRows ==
  /\ fn = "loadInitialState"
  /\ args = [raw |-> JSONText(SingleRowJSON)]
  /\ locals = NoLocals
  /\ ret = NoRet
  /\ state = NoState
  /\ storage = args.raw

NextRows ==
  \/ Mount
  \/ AddPaycheck /\ RowsFit'
  \/ RemovePaycheck
  \/ AddBill /\ RowsFit'
  \/ RemoveBill

SpecRows == InitRows /\ [][NextRows]_vars

PersonIds == <<"person-1", "person-2">>

(* C29: under every sequence of adding and removing paychecks and bills    *)
(* there are exactly two persons, with ids person-1 and person-2, and each *)
(* person has at least one paycheck and at least one bill: removing the    *)
(* last paycheck leaves the list [0], removing the last bill leaves one    *)
(* bill with amount 0.                                                     *)
C29_TwoPersonsNonEmptyRows ==
  /\ [](Loaded =>
          /\ Len(state.persons) = 2
          /\ \A i \in 1..2 :
               /\ state.persons[i].id = PersonIds[i]
               /\ Len(state.persons[i].paychecks) >= 1
               /\ Len(state.persons[i].bills) >= 1)
  /\ [][\A i \in Persons :
          /\ (Len(state.persons[i].paychecks) = 1
                /\ Card(i, removePaycheck(state.persons[i], 0)))
               => state'.persons[i].paychecks = <<Zero>>
          /\ (Len(state.persons[i].bills) = 1
                /\ \E random \in randomId : Card(i, removeBill(state.persons[i], random, 0)))
               => /\ Len(state'.persons[i].bills) = 1
                  /\ state'.persons[i].bills[1].amount = Zero]_vars

C29_Witness ==
  /\ Loaded
  /\ state.persons[1].paychecks = <<Zero>>
  /\ Len(state.persons[1].bills) = 1
  /\ state.persons[1].bills[1].label = "Bill 1"
  /\ state.persons[1].bills[1].amount = Zero
  /\ state.persons[1].bills[1].id \in {"bill-" \o random : random \in randomId}
  /\ state.persons[2].paychecks = <<Num(60), Zero>>


-----------------------------------------------------------------------------
(* updatePerson and toggleRentMode: what an edit leaves alone *)

SinglePaycheck(id, name) == {p \in PersonInputs(id, name) : Len(p.paychecks) = 1}

EditStateInputs ==
  {[rent |-> r, rentMode |-> m, persons |-> <<p1, p2>>] :
     r \in AppRentInputs, m \in RentModes,
     p1 \in SinglePaycheck("person-1", "Person 1"),
     p2 \in SinglePaycheck("person-2", "Person 2")}

(* The ids updatePerson is called with, and the persons it is handed: some *)
(* carry the id of the first card, some an id of no card.                  *)
EditIds == {"person-1", "person-2", "person-3"}
EditPersonInputs == SinglePaycheck("person-1", "Guest") \cup SinglePaycheck("person-3", "Guest")

InitEdit ==
  /\ fn = "App"
  /\ args = NoRet
  /\ locals = NoLocals
  /\ ret = NoRet
  /\ state \in EditStateInputs
  /\ storage = JSONStringify(state)

UpdatePerson == \E id \in EditIds, nextPerson \in EditPersonInputs : updatePerson(id, nextPerson)

NextEdit ==
  \/ UpdatePerson
  \/ ChangeRentMode

SpecEdit == InitEdit /\ [][NextEdit]_vars

InMode(st, mode) == [st EXCEPT !.rentMode = mode]

ModeIndependent == {"monthlyIncome", "bills", "groceries", "gas", "savings", "wants"}
ModeIndependentCategories == {"Bills", "Groceries", "Gas", "Savings", "Wants"}

(* C30: frame of edits. updatePerson(id, next) replaces only the person    *)
(* whose id is `id`, who keeps that id whatever id `next` carries, and     *)
(* leaves every other person, rent and rentMode as they are;               *)
(* toggleRentMode changes only rentMode; and in every state each person's  *)
(* monthlyIncome, bills, groceries, gas, savings and wants, with their     *)
(* percentages, are the same in fair and in equal mode.                    *)
C30_FrameOfEdits ==
  /\ [][\A id \in EditIds, nextPerson \in EditPersonInputs :
          updatePerson(id, nextPerson) =>
            /\ state'.rent = state.rent
            /\ state'.rentMode = state.rentMode
            /\ Len(state'.persons) = Len(state.persons)
            /\ \A i \in 1..Len(state.persons) :
                 /\ state'.persons[i].id = state.persons[i].id
                 /\ state.persons[i].id # id => state'.persons[i] = state.persons[i]
                 /\ state.persons[i].id = id =>
                      \A key \in DOMAIN nextPerson \ {"id"} :
                        state'.persons[i][key] = nextPerson[key]]_vars
  /\ [][\A mode \in RentModes :
          toggleRentMode(mode) =>
            /\ state'.rentMode = mode
            /\ state'.rent = state.rent
            /\ state'.persons = state.persons]_vars
  /\ [](LET fair == budgets(InMode(state, "fair"))
            equal == budgets(InMode(state, "equal"))
        IN \A i \in 1..Len(state.persons) :
             /\ \A key \in ModeIndependent : fair[i][key] = equal[i][key]
             /\ \A k \in ModeIndependentCategories :
                  fair[i].percentages[k] = equal[i].percentages[k])

C30_Witness ==
  /\ state.persons[1].id = "person-1"
  /\ state.persons[1].name = "Guest"
  /\ state.persons[2].name = "Person 2"
  /\ state.rentMode = "equal"
  /\ rentSharesFair(state) # rentSharesEqual(state)
  /\ budgets(InMode(state, "fair"))[1].rent # budgets(state)[1].rent
  /\ budgets(InMode(state, "fair"))[1].debt # budgets(state)[1].debt

====
